---- MODULE Spec2Model ----
(***************************************************************************)
(* Model of Modules/api_handler.py: BaseWebsocketAPIHandler, the client    *)
(* side of a request/response channel over one WebSocket.                  *)
(*                                                                         *)
(* Everything runs on one asyncio event loop, so a step of the model is    *)
(* the code a coroutine runs between two of its awaits:                    *)
(*   - connect(), disconnect() and reconnect() are called one after the    *)
(*     other by the owner of the handler; each is one step;                *)
(*   - the listener task (_message_handler) takes one step per frame;      *)
(*   - a caller task is suspended in "await self._connection.send(...)"    *)
(*     (pc = "sending") or in "await asyncio.sleep(0.01)" (pc = "polling").*)
(* The server is the environment: it may send any frame at any time and    *)
(* may drop the connection.                                                *)
(***************************************************************************)
EXTENDS Integers, FiniteSets, Sequences, TLC

\* ------------------------------------------------------------- bounds
\* How many calls are made on the handler, each by a task of its own, so
\* that any of them may overlap.
NumCalls == 2
\* How many distinct values uuid4() can return.
NumIds == 2
\* The max_wait of a call that waits at all, in sleeps of 10 ms. _request()
\* waits with the default budget, which the model scales down to this
\* bound (see DefaultMaxWait); a caller of _retrieve_response passes this
\* or 0.
MaxWait == 2

\* The default of max_wait in the source; the model never counts that far.
DefaultMaxWait == 600

\* max_wait: int=600, as far as the model counts.
DefaultBudget == IF DefaultMaxWait < MaxWait THEN DefaultMaxWait ELSE MaxWait

Calls == 1..NumCalls
Budgets == {0, MaxWait}
IDs == 1..NumIds
NoId == 0

\* ------------------------------------------------------------- frames
\* An inbound frame, as recv() hands it over. shape is what json.loads makes
\* of it: "garbage" is text that is not JSON, "badbytes" a binary frame that
\* is not UTF-8, "array"/"number"/"string"/"null" a JSON value that is not an
\* object, "object" a JSON object. An object has an optional top-level
\* status, an optional meta (an object or something else), and meta has an
\* optional request_id: not a string, a string that is no UUID, or the text
\* of a UUID. The text of a UUID is its value (uuid) in one of the spellings
\* UUID() accepts (form): str(uuid) writes "canonical" only.
Shapes == {"garbage", "badbytes", "array", "number", "string", "null", "object"}
Statuses == {"absent", "200", "401", "403", "500"}
ErrorStatuses == {"401", "403", "500"}
Forms == {"canonical", "uppercase"}

NoFrame ==
  [shape |-> "none", status |-> "absent", meta |-> "absent",
   request_id |-> "absent", uuid |-> NoId, form |-> "canonical"]

NonObjectFrames ==
  { [NoFrame EXCEPT !.shape = s] : s \in Shapes \ {"object"} }

\* The JSON objects the server is taken to send: every way the routing fields
\* can be present or missing in a frame without a status, a reply in the
\* spelling the client sent, a reply that carries another status and spells
\* the id in capitals, and the three error statuses without and with a
\* request id.
ObjectFrames ==
  LET plain == [NoFrame EXCEPT !.shape = "object"]
      withId(f, u, fm) ==
        [f EXCEPT !.meta = "object", !.request_id = "uuid", !.uuid = u, !.form = fm]
  IN   { plain, [plain EXCEPT !.meta = "nonobject"], [plain EXCEPT !.meta = "object"] }
  \cup { [plain EXCEPT !.meta = "object", !.request_id = r] : r \in {"nonstring", "malformed"} }
  \cup { withId(plain, u, "canonical") : u \in IDs }
  \cup { withId([plain EXCEPT !.status = "200"], u, "uppercase") : u \in IDs }
  \cup { [plain EXCEPT !.status = st] : st \in ErrorStatuses }
  \cup { withId([plain EXCEPT !.status = st], u, "canonical") :
           st \in ErrorStatuses, u \in IDs }

Frames == NonObjectFrames \cup ObjectFrames

\* The reply a server sends to the envelope stamped with request id u.
Replies(u) ==
  { f \in ObjectFrames : f.request_id = "uuid" /\ f.uuid = u /\ f.status \in {"absent", "200"} }

\* ------------------------------------------------------------- state
VARIABLES
  api_version,        \* the handler class's api_version
  hostname,           \* self._hostname
  token,              \* self._token ("None" when there is none)
  tls,                \* self._tls
  uri,                \* the URI of the last websockets.connect (<<>> before)
  connection,         \* self._connection: "None", "open" or "closed"
  listener_task,      \* self._listener_task: "None", "running" or "done"
  waiting_requests,   \* self._waiting_requests
  request_responses,  \* self._request_responses: a function on some ids
  pc,                 \* where each call is: "idle" before it is made, "done" after
  request_id,         \* the request id it holds
  max_wait,           \* its max_wait
  i,                  \* its loop index in _retrieve_response: sleeps done
  out                 \* what the last step returned, raised or logged

vars == <<api_version, hostname, token, tls, uri, connection, listener_task, waiting_requests,
          request_responses, pc, request_id, max_wait, i, out>>

paramVars == <<hostname, token, tls>>
connVars == <<connection, listener_task>>
tableVars == <<waiting_requests, request_responses>>
callerVars == <<pc, request_id, max_wait, i>>

\* out is the observable result of the last step: the operation (op), what
\* it returned, raised or logged (res), the payload a call returned (data),
\* the max_wait of a call that raised TimeoutError and the sleeps it had done
\* (budget, slept), and the two arguments of a MismatchedVersionError (args).
NoOut ==
  [op |-> "none", res |-> "none", data |-> NoFrame, budget |-> 0, slept |-> 0,
   args |-> <<>>]
Out(op, res) == [NoOut EXCEPT !.op = op, !.res = res]

\* connected = property(lambda self: self._connection is not None and self._connection.open)
connected == connection = "open"

\* How a call ends: it returns a payload or raises.
Ended == {"returned", "TimeoutError", "APIError", "NotConnectedError", "ConnectionClosed"}

Versions == {"v2.0", "v2.1"}

\* __init__: no connection, no listener task, both collections empty.
Constructed ==
  /\ uri = <<>>
  /\ connection = "None"
  /\ listener_task = "None"
  /\ waiting_requests = {}
  /\ request_responses = << >>
  /\ pc = [c \in Calls |-> "idle"]
  /\ request_id = [c \in Calls |-> NoId]
  /\ max_wait = [c \in Calls |-> 0]
  /\ i = [c \in Calls |-> 0]
  /\ out = NoOut

\* WebsocketAPIHandler21("api.example"): no token, tls=True.
Init ==
  /\ api_version = "v2.1"
  /\ hostname = "api.example"
  /\ token = "None"
  /\ tls = TRUE
  /\ Constructed

\* Either handler class, with or without a token, with or without TLS.
InitLifecycle ==
  /\ api_version \in Versions
  /\ hostname = "api.example"
  /\ token \in {"None", "token0"}
  /\ tls \in BOOLEAN
  /\ Constructed

\* ------------------------------------------------------------- connection
\* What the server answers to a connection attempt: it refuses it, or it
\* accepts and sends one first frame (the connect message). version is the
\* value of meta["API-Version"].
HelloShapes == {"refused", "garbage", "badbytes", "nonobject", "object"}

NoHello == [shape |-> "refused", meta |-> "absent", version |-> "absent"]

Hellos ==
       { [NoHello EXCEPT !.shape = s] : s \in HelloShapes }
  \cup { [NoHello EXCEPT !.shape = "object", !.meta = "nonobject"] }
  \cup { [NoHello EXCEPT !.shape = "object", !.meta = "object", !.version = v] :
           v \in {"absent"} \cup Versions }

\* uri = f"wss://{self._hostname}" if self._tls else f"ws://{self._hostname}"
\* if self._token: uri += f"/?bearer={self._token}"
Uri(h, t, s) ==
  <<IF s THEN "wss" ELSE "ws", h, IF t # "None" THEN t ELSE "">>

\* The try block of connect(): what the connect message makes it do.
\* "ok" and "logged" both go on to start the listener task.
CheckConnectMessage(h, ver) ==
  IF h.shape = "garbage" THEN "APIError"                 \* json.JSONDecodeError
  ELSE IF h.shape = "badbytes" THEN "UnicodeDecodeError" \* not caught
  ELSE IF h.shape = "nonobject" THEN "TypeError"         \* connect_message["meta"]
  ELSE IF h.meta = "absent" THEN "logged"                \* KeyError
  ELSE IF h.meta = "nonobject" THEN "TypeError"          \* [...]["API-Version"]
  ELSE IF h.version = "absent" THEN "logged"             \* KeyError
  ELSE IF h.version # ver THEN "MismatchedVersionError"
  ELSE "ok"

\* connect() on a handler whose fields are cn and lt.
DoConnect(cn, lt, h, ver) ==
  IF cn = "open"
    THEN [connection |-> cn, listener_task |-> lt, res |-> "NotConnectedError", dialled |-> FALSE]
  ELSE IF h.shape = "refused"
    THEN [connection |-> cn, listener_task |-> lt, res |-> "ConnectFailed", dialled |-> TRUE]
  ELSE LET r == CheckConnectMessage(h, ver)
       IN  [connection |-> "open",
            listener_task |-> IF r \in {"ok", "logged"} THEN "running" ELSE lt,
            res |-> r, dialled |-> TRUE]

\* A disconnect() that closes the connection and lets the listener task be.
DoDisconnectKeepsTask(cn, lt) ==
  IF cn # "open"
    THEN [connection |-> cn, listener_task |-> lt, res |-> "NotConnectedError"]
  ELSE [connection |-> "None", listener_task |-> lt, res |-> "ok"]

\* disconnect() on a handler whose fields are cn and lt.
DoDisconnect(cn, lt) ==
  IF cn # "open"
    THEN [connection |-> cn, listener_task |-> lt, res |-> "NotConnectedError"]
  ELSE IF lt = "None"                                    \* None.cancel()
    THEN [connection |-> cn, listener_task |-> lt, res |-> "AttributeError"]
  ELSE [connection |-> "None", listener_task |-> "None", res |-> "ok"]

\* MismatchedVersionError with its two arguments the other way round.
ConnectArgsSwapped(h, ver, r) ==
  IF r = "MismatchedVersionError" THEN <<h.version, ver>> ELSE <<>>

ConnectArgs(h, ver, r) ==
  IF r = "MismatchedVersionError" THEN <<ver, h.version>> ELSE <<>>

Connect(h) ==
  LET r == DoConnect(connection, listener_task, h, api_version)
  IN  /\ connection' = r.connection
      /\ listener_task' = r.listener_task
      /\ uri' = IF r.dialled THEN Uri(hostname, token, tls) ELSE uri
      /\ out' = [Out("connect", r.res) EXCEPT !.args = ConnectArgs(h, api_version, r.res)]
      /\ UNCHANGED <<api_version, paramVars, tableVars, callerVars>>

Disconnect ==
  LET r == DoDisconnect(connection, listener_task)
  IN  /\ connection' = r.connection
      /\ listener_task' = r.listener_task
      /\ out' = Out("disconnect", r.res)
      /\ UNCHANGED <<api_version, paramVars, uri, tableVars, callerVars>>

\* reconnect(hostname, token, tls); "None" is an argument left out.
Reconnect(h, new_hostname, new_token, new_tls) ==
  LET d == IF connected THEN DoDisconnect(connection, listener_task)
           ELSE [connection |-> connection, listener_task |-> listener_task, res |-> "ok"]
  IN  IF d.res # "ok"
        THEN /\ out' = Out("reconnect", d.res)
             /\ UNCHANGED <<api_version, paramVars, uri, connVars, tableVars, callerVars>>
        ELSE LET hn == IF new_hostname # "None" THEN new_hostname ELSE hostname
                 tk == IF new_token # "None" THEN new_token ELSE token
                 tl == IF new_tls = "True" THEN TRUE ELSE tls   \* if tls:
                 r  == DoConnect(d.connection, d.listener_task, h, api_version)
             IN  /\ hostname' = hn
                 /\ token' = tk
                 /\ tls' = tl
                 /\ connection' = r.connection
                 /\ listener_task' = r.listener_task
                 /\ uri' = IF r.dialled THEN Uri(hn, tk, tl) ELSE uri
                 /\ out' = [Out("reconnect", r.res) EXCEPT
                              !.args = ConnectArgs(h, api_version, r.res)]
                 /\ UNCHANGED <<api_version, tableVars, callerVars>>

\* The server, or the network, drops the connection: recv() in the listener
\* task raises ConnectionClosed and the task ends.
ConnectionLost ==
  /\ connection = "open"
  /\ connection' = "closed"
  /\ listener_task' = IF listener_task = "running" THEN "done" ELSE listener_task
  /\ out' = NoOut
  /\ UNCHANGED <<api_version, paramVars, uri, tableVars, callerVars>>

\* ------------------------------------------------------------- listener task
\* UUID(text): the value of a well-formed text, whatever its spelling.
UUID(f) == f.uuid

\* The envelope _request() sends: meta.request_id is str(request_id), the
\* canonical spelling of the value.
Str(u) ==
  [NoFrame EXCEPT !.shape = "object", !.meta = "object", !.request_id = "uuid",
                  !.uuid = u, !.form = "canonical"]

\* A listener without the "elif data["status"] == 500" branch.
MessageOutcomeWithout500(f) ==
  IF f.shape = "garbage" THEN "log:unparseable"
  ELSE IF f.shape = "badbytes" THEN "UnicodeDecodeError"
  ELSE IF f.shape # "object" THEN "AttributeError"
  ELSE IF f.status = "401" THEN "log:401"
  ELSE IF f.status = "403" THEN "log:403"
  ELSE IF f.meta = "absent" THEN "log:norequestid"
  ELSE IF f.meta = "nonobject" THEN "TypeError"
  ELSE IF f.request_id = "absent" THEN "log:norequestid"
  ELSE IF f.request_id = "nonstring" THEN "AttributeError"
  ELSE IF f.request_id = "malformed" THEN "log:invaliduuid"
  ELSE "route"

\* What one pass of the loop of _message_handler does with frame f, up to the
\* look-up in _waiting_requests: the exception that ends the task, the line
\* it logs before "continue", or "route".
MessageOutcome(f) ==
  IF f.shape = "garbage" THEN "log:unparseable"            \* json.JSONDecodeError
  ELSE IF f.shape = "badbytes" THEN "UnicodeDecodeError"   \* json.loads(bytes)
  ELSE IF f.shape # "object" THEN "AttributeError"         \* data.keys()
  ELSE IF f.status = "401" THEN "log:401"
  ELSE IF f.status = "403" THEN "log:403"
  ELSE IF f.status = "500" THEN "log:500"
  ELSE IF f.meta = "absent" THEN "log:norequestid"         \* KeyError
  ELSE IF f.meta = "nonobject" THEN "TypeError"            \* data["meta"]["request_id"]
  ELSE IF f.request_id = "absent" THEN "log:norequestid"   \* KeyError
  ELSE IF f.request_id = "nonstring" THEN "AttributeError" \* UUID(5)
  ELSE IF f.request_id = "malformed" THEN "log:invaliduuid" \* ValueError
  ELSE "route"

Exceptions == {"UnicodeDecodeError", "AttributeError", "TypeError"}

\* self._request_responses[request_id] = data
Store(responses, id, data) ==
  [x \in DOMAIN responses \cup {id} |-> IF x = id THEN data ELSE responses[x]]

\* A pop that leaves the entry where it is (a look-up).
PopKeepsEntry(responses, id) == responses

\* self._request_responses.pop(request_id), the dictionary left behind
Pop(responses, id) ==
  [x \in DOMAIN responses \ {id} |-> responses[x]]

\* A listener that takes every reply as expected.
UnexpectedNever(id, waiting) == FALSE

\* if request_id not in self._waiting_requests: ... continue
Unexpected(id, waiting) == id \notin waiting

\* One pass of the loop of _message_handler on frame f.
MessageHandler(f) ==
  /\ listener_task = "running"
  /\ LET o == MessageOutcome(f)
     IN  IF o \in Exceptions
           THEN /\ listener_task' = "done"
                /\ out' = Out("listener", o)
                /\ UNCHANGED <<connection, tableVars>>
         ELSE IF o # "route"
           THEN /\ out' = Out("listener", o)
                /\ UNCHANGED <<connVars, tableVars>>
         ELSE IF Unexpected(UUID(f), waiting_requests)
           THEN /\ out' = Out("listener", "log:unexpected")
                /\ UNCHANGED <<connVars, tableVars>>
         ELSE /\ request_responses' = Store(request_responses, UUID(f), f)
              /\ waiting_requests' = waiting_requests \ {UUID(f)}
              /\ out' = Out("listener", "filed")
              /\ UNCHANGED connVars
  /\ UNCHANGED <<api_version, paramVars, uri, callerVars>>

\* ------------------------------------------------------------- callers
\* The values that occur in the state: held by a call or in a collection.
InUse ==
  (waiting_requests \cup DOMAIN request_responses \cup { request_id[c] : c \in Calls })
    \ {NoId}

\* A value a caller can come by: uuid4() may return any value, and one that
\* occurs nowhere in the state is like any other such, so the first of them
\* stands for them all.
Uuid4(id) ==
  \/ id \in InUse
  \/ \A x \in IDs : x < id => x \in InUse

\* uuid4() until the value is in neither collection.
Minted(id) ==
  /\ id \notin waiting_requests
  /\ id \notin DOMAIN request_responses

\* A loop that runs one pass more: range(max_wait + 1).
ExhaustedOnePassLater(k, n) == k > n

\* for i in range(max_wait): ... else: raise TimeoutError
Exhausted(k, n) == k >= n

\* A _retrieve_response that takes whichever entry comes first: popitem().
RunLoopPopitem(id, n, k, w, r) ==
  IF Exhausted(k, n)
    THEN [pc |-> "TimeoutError", response |-> NoFrame, responses |-> r]
  ELSE IF id \in w
    THEN [pc |-> "polling", response |-> NoFrame, responses |-> r]
  ELSE IF id \in DOMAIN r
    THEN LET x == CHOOSE y \in DOMAIN r : TRUE
         IN  [pc |-> "returned", response |-> r[x], responses |-> Pop(r, x)]
  ELSE [pc |-> "APIError", response |-> NoFrame, responses |-> r]

\* _retrieve_response from the head of its loop, at index k, to its next
\* await or to its end, with the collections w and r.
RunLoop(id, n, k, w, r) ==
  IF Exhausted(k, n)
    THEN [pc |-> "TimeoutError", response |-> NoFrame, responses |-> r]
  ELSE IF id \in w
    THEN [pc |-> "polling", response |-> NoFrame, responses |-> r]
  ELSE IF id \in DOMAIN r
    THEN [pc |-> "returned", response |-> r[id], responses |-> Pop(r, id)]
  ELSE [pc |-> "APIError", response |-> NoFrame, responses |-> r]

\* Call c ends with res: it returns data or raises res, a TimeoutError
\* after k sleeps of the n allowed. Its locals go.
End(c, res, data, n, k) ==
  /\ pc' = [pc EXCEPT ![c] = "done"]
  /\ request_id' = [request_id EXCEPT ![c] = NoId]
  /\ max_wait' = [max_wait EXCEPT ![c] = 0]
  /\ i' = [i EXCEPT ![c] = 0]
  /\ out' = [Out("call", res) EXCEPT
               !.data = data,
               !.budget = IF res = "TimeoutError" THEN n ELSE 0,
               !.slept = IF res = "TimeoutError" THEN k ELSE 0]

\* Call c goes on in _retrieve_response(id, n) at loop index k.
Poll(c, id, n, k, w) ==
  LET s == RunLoop(id, n, k, w, request_responses)
  IN  /\ waiting_requests' = w
      /\ request_responses' = s.responses
      /\ IF s.pc = "polling"
           THEN /\ pc' = [pc EXCEPT ![c] = "polling"]
                /\ request_id' = [request_id EXCEPT ![c] = id]
                /\ max_wait' = [max_wait EXCEPT ![c] = n]
                /\ i' = [i EXCEPT ![c] = k]
                /\ out' = NoOut
           ELSE End(c, s.pc, s.response, n, k)

\* A _request() that waits its turn: it runs while no other call is in
\* flight.
RequestOneAtATime(c) ==
  /\ pc[c] = "idle"
  /\ \A d \in Calls : pc[d] \notin {"sending", "polling"}
  /\ \E id \in IDs :
       /\ Uuid4(id)
       /\ Minted(id)
       /\ IF connected
            THEN /\ pc' = [pc EXCEPT ![c] = "sending"]
                 /\ request_id' = [request_id EXCEPT ![c] = id]
                 /\ out' = NoOut
                 /\ UNCHANGED <<max_wait, i>>
            ELSE End(c, "NotConnectedError", NoFrame, 0, 0)
  /\ UNCHANGED <<api_version, paramVars, uri, connVars, tableVars>>

\* _request(data) up to its first await: mint the id, stamp it, _send_raw().
\* sent is what the step shows of the envelope handed to the socket.
SendRequest(c, sent) ==
  /\ pc[c] = "idle"
  /\ \E id \in IDs :
       /\ Uuid4(id)
       /\ Minted(id)
       /\ IF connected
            THEN /\ pc' = [pc EXCEPT ![c] = "sending"]
                 /\ request_id' = [request_id EXCEPT ![c] = id]
                 /\ out' = sent
                 /\ UNCHANGED <<max_wait, i>>
            ELSE End(c, "NotConnectedError", NoFrame, 0, 0)
  /\ UNCHANGED <<api_version, paramVars, uri, connVars, tableVars>>

\* call(endpoint, action, params, meta) with arguments of the caller's.
Request(c) == SendRequest(c, NoOut)

\* A rescue, as far as update_rescue looks at it: its case_id ("None" when
\* it is not set), and full, which rescue.json(full) makes the data of.
Rescues == { [case_id |-> k, full |-> fl] : k \in {"None", "case1"}, fl \in BOOLEAN }

\* self.call("rescues", "update", {"id": rescue.case_id, "data": rescue.json(full)})
RescueEnvelope(rescue) ==
  [Out("send", "rescues.update") EXCEPT !.args = <<rescue.case_id, rescue.full>>]

\* An update_rescue that sends whatever the case id.
UpdateRescueUnchecked(c, rescue) == SendRequest(c, RescueEnvelope(rescue))

\* update_rescue(rescue, full) up to its first await.
UpdateRescue(c, rescue) ==
  IF rescue.case_id = "None"
    THEN /\ pc[c] = "idle"
         /\ End(c, "ValueError", NoFrame, 0, 0)
         /\ UNCHANGED <<api_version, paramVars, uri, connVars, tableVars>>
    ELSE SendRequest(c, RescueEnvelope(rescue))

\* send() returns: the id is added and _retrieve_response(request_id) runs
\* to its first await.
SendReturns(c) ==
  /\ pc[c] = "sending"
  /\ Poll(c, request_id[c], DefaultBudget, 0, waiting_requests \cup {request_id[c]})
  /\ UNCHANGED <<api_version, paramVars, uri, connVars>>

\* send() raises because the connection went away while it was suspended.
SendRaises(c) ==
  /\ pc[c] = "sending"
  /\ ~connected
  /\ End(c, "ConnectionClosed", NoFrame, 0, 0)
  /\ UNCHANGED <<api_version, paramVars, uri, connVars, tableVars>>

\* _retrieve_response(id, n) called on its own, up to its first await.
RetrieveResponse(c, id, n) ==
  /\ pc[c] = "idle"
  /\ Uuid4(id)
  /\ IF id \notin waiting_requests /\ id \notin DOMAIN request_responses
       THEN /\ End(c, "APIError", NoFrame, 0, 0)
            /\ UNCHANGED tableVars
       ELSE Poll(c, id, n, 0, waiting_requests)
  /\ UNCHANGED <<api_version, paramVars, uri, connVars>>

\* asyncio.sleep(0.01) returns: the next pass of the loop.
Wake(c) ==
  /\ pc[c] = "polling"
  /\ Poll(c, request_id[c], max_wait[c], i[c] + 1, waiting_requests)
  /\ UNCHANGED <<api_version, paramVars, uri, connVars>>

\* ------------------------------------------------------------- specifications
\* Spec: every operation with every input.
Next ==
  \/ \E h \in Hellos : Connect(h)
  \/ Disconnect
  \/ \E h \in Hellos : Reconnect(h, "None", "None", "None")
  \/ ConnectionLost
  \/ \E f \in Frames : MessageHandler(f)
  \/ \E c \in Calls : Request(c)
  \/ \E c \in Calls : SendReturns(c)
  \/ \E c \in Calls : SendRaises(c)
  \/ \E c \in Calls, id \in IDs, n \in Budgets : RetrieveResponse(c, id, n)
  \/ \E c \in Calls : Wake(c)

Spec == Init /\ [][Next]_vars

\* SpecCalls: the calls and their replies. The server answers a connection
\* with a connect message of the handler's version or of the other one, and
\* then sends replies, text that is no JSON and JSON arrays.
CallHellos == { h \in Hellos : h.version # "absent" }
CallFrames ==
  { f \in Frames : f.shape \in {"garbage", "array"} \/ (f.request_id = "uuid" /\ f.status \notin ErrorStatuses) }

NextCalls ==
  \/ \E h \in CallHellos : Connect(h)
  \/ Disconnect
  \/ \E f \in CallFrames : MessageHandler(f)
  \/ \E c \in Calls : Request(c)
  \/ \E c \in Calls : SendReturns(c)
  \/ \E c \in Calls, id \in IDs, n \in Budgets : RetrieveResponse(c, id, n)
  \/ \E c \in Calls : Wake(c)

SpecCalls == Init /\ [][NextCalls]_vars

\* SpecFrames: the listener task on every frame. The connection is made
\* once, and the first two calls are made, with _request(): what varies
\* here is the frames, the ids they carry and the time the calls wait.
FrameHellos == { h \in Hellos : h.version = "v2.1" }
FrameCalls == { c \in Calls : c <= 2 }

NextFrames ==
  \/ \E h \in FrameHellos : Connect(h)
  \/ \E f \in Frames : MessageHandler(f)
  \/ \E c \in FrameCalls : Request(c)
  \/ \E c \in FrameCalls : SendReturns(c)
  \/ \E c \in FrameCalls : Wake(c)

SpecFrames == Init /\ [][NextFrames]_vars

\* SpecLifecycle: connect(), disconnect() and reconnect() with every
\* argument, against a server that may drop the connection and send any
\* frame; no call is made.
NextLifecycle ==
  \/ \E h \in Hellos : Connect(h)
  \/ Disconnect
  \/ \E h \in Hellos, hn \in {"None", "other.example"}, tk \in {"None", "token1"},
        tl \in {"None", "True", "False"} : Reconnect(h, hn, tk, tl)
  \/ ConnectionLost
  \/ \E f \in Frames : MessageHandler(f)

SpecLifecycle == InitLifecycle /\ [][NextLifecycle]_vars

\* SpecRescue: update_rescue() on a handler of either class, connected to
\* a server of its version that sends replies.
RescueFrames ==
  { f \in Frames : f.request_id = "uuid" /\ f.status \notin ErrorStatuses }

NextRescue ==
  \/ \E h \in Hellos : h.version = api_version /\ Connect(h)
  \/ \E f \in RescueFrames : MessageHandler(f)
  \/ \E c \in Calls, rescue \in Rescues : UpdateRescue(c, rescue)
  \/ \E c \in Calls : SendReturns(c)
  \/ \E c \in Calls : Wake(c)

\* WebsocketAPIHandler20("api.example") or WebsocketAPIHandler21("api.example").
InitRescue ==
  /\ api_version \in Versions
  /\ hostname = "api.example"
  /\ token = "None"
  /\ tls = TRUE
  /\ Constructed

SpecRescue == InitRescue /\ [][NextRescue]_vars

\* ------------------------------------------------------------- claims
\* A call is in flight from the moment _request() has minted its id until
\* it returns or raises.
InFlight(c) == pc[c] \in {"sending", "polling"}

\* A frame that is a well-formed reply: a JSON object without an error
\* status whose meta.request_id is the text of a UUID.
WellFormedReply(f) ==
  /\ f.shape = "object"
  /\ f.status \notin ErrorStatuses
  /\ f.meta = "object"
  /\ f.request_id = "uuid"

\* The step ends call c by handing it a payload.
Returns(c) == pc[c] # "done" /\ pc'[c] = "done" /\ out'.res = "returned"

\* C1: whatever calls are outstanding and in whatever order the frames come,
\* the payload a call returns carries, in meta.request_id, the id this call
\* holds: it is never the reply filed under another call's id.
C1_ReturnedReplyCarriesOwnId ==
  [][\A c \in Calls :
       (InFlight(c) /\ Returns(c))
         => /\ WellFormedReply(out'.data)
            /\ UUID(out'.data) = request_id[c]]_vars

\* C1 happens: a call has returned its reply while the reply to another id
\* lay filed in _request_responses.
C1_Witness ==
  /\ out.op = "call"
  /\ out.res = "returned"
  /\ \E x \in DOMAIN request_responses : x # UUID(out.data)

\* C2, as the spec states it: a reply carrying the call's request_id that
\* reaches the listener while the handler is connected and the call is in
\* flight, suspended in send() included, is filed for the call, which is what
\* it takes for call() to return it.
C2_ReplyDuringSendIsFiled ==
  [][\A c \in Calls : \A f \in Replies(request_id[c]) :
       (connected /\ InFlight(c) /\ MessageHandler(f))
         => /\ UUID(f) \in DOMAIN request_responses'
            /\ request_responses'[UUID(f)] = f]_vars

\* C3, as the spec states it: no id is in _waiting_requests and in
\* _request_responses at once.
C3_PendingAndFiledDisjoint ==
  waiting_requests \cap DOMAIN request_responses = {}

\* The step takes the entry filed under id x out of _request_responses and
\* hands its payload to the caller; x is then in neither collection.
Claimed(x) ==
  /\ x \in DOMAIN request_responses
  /\ out'.data = request_responses[x]
  /\ request_responses' = [y \in DOMAIN request_responses \ {x} |-> request_responses[y]]
  /\ waiting_requests' = waiting_requests
  /\ x \notin waiting_requests'

\* C4: a _retrieve_response that returns, returns exactly the payload filed
\* under its id and removes that entry; a _retrieve_response for an id that
\* is in neither collection (never registered, or already consumed) raises
\* APIError and returns no payload, at its entry and after a sleep alike.
C4_RetrieveConsumesOnce ==
  [][\A c \in Calls :
       /\ (InFlight(c) /\ Returns(c)) => Claimed(request_id[c])
       /\ \A id \in IDs, n \in Budgets :
            (RetrieveResponse(c, id, n) /\ Returns(c)) => Claimed(id)
       /\ \A id \in IDs, n \in Budgets :
            (RetrieveResponse(c, id, n) /\ id \notin waiting_requests
               /\ id \notin DOMAIN request_responses)
              => out'.res = "APIError" /\ out'.data = NoFrame /\ UNCHANGED tableVars
       /\ (Wake(c) /\ request_id[c] \notin waiting_requests
             /\ request_id[c] \notin DOMAIN request_responses
             /\ i[c] + 1 < max_wait[c])
            => out'.res = "APIError" /\ out'.data = NoFrame /\ UNCHANGED tableVars]_vars

\* C4 happens: a call has just returned a reply while a second
\* _retrieve_response for the same id is asleep with sleeps left, so that it
\* finds the entry gone when it wakes.
C4_Witness ==
  /\ out.op = "call"
  /\ out.res = "returned"
  /\ UUID(out.data) \notin DOMAIN request_responses
  /\ \E c \in Calls :
       /\ pc[c] = "polling"
       /\ request_id[c] = UUID(out.data)
       /\ i[c] + 1 < max_wait[c]

\* C5: a well-formed reply whose id is not in _waiting_requests is dropped:
\* the step logs it and changes neither collection, so the id does not come
\* to be in _request_responses by it, and the listener runs on.
C5_UnexpectedReplyDropped ==
  [][\A f \in Frames :
       (WellFormedReply(f) /\ UUID(f) \notin waiting_requests /\ MessageHandler(f))
         => /\ UNCHANGED tableVars
            /\ listener_task' = "running"
            /\ out'.res = "log:unexpected"]_vars

\* C5 happens: a reply has just been dropped as unexpected while another
\* call was pending and a reply lay filed.
C5_Witness ==
  /\ out.op = "listener"
  /\ out.res = "log:unexpected"
  /\ waiting_requests # {}
  /\ DOMAIN request_responses # {}

\* C6, as the spec states it: a frame that is not JSON, text or binary,
\* never ends the listener task and changes neither collection.
C6_NonJsonFrameKeepsListener ==
  [][\A f \in Frames :
       (f.shape \in {"garbage", "badbytes"} /\ MessageHandler(f))
         => /\ listener_task' = "running"
            /\ UNCHANGED tableVars]_vars

\* C7, as the spec states it: no frame of any kind ends the listener task
\* while the handler is connected.
C7_EveryFrameKeepsListener ==
  [][\A f \in Frames :
       (connected /\ MessageHandler(f)) => listener_task' = "running"]_vars

C9_TimeoutAfterExactlyMaxWait ==
  [][\A c \in Calls :
       /\ (pc[c] # "done" /\ pc'[c] = "done" /\ out'.res = "TimeoutError")
            => /\ out'.slept = out'.budget
               /\ pc[c] = "polling" => (out'.budget = max_wait[c] /\ i[c] + 1 = max_wait[c])
       /\ pc'[c] = "polling" => i'[c] < max_wait'[c]
       /\ (Wake(c) /\ request_id[c] \in waiting_requests)
            => IF i[c] + 1 = max_wait[c]
                 THEN pc'[c] = "done" /\ out'.res = "TimeoutError"
                 ELSE pc'[c] = "polling" /\ i'[c] = i[c] + 1 /\ max_wait'[c] = max_wait[c]
       /\ (pc[c] = "sending" /\ pc'[c] = "polling")
            => max_wait'[c] = DefaultBudget /\ i'[c] = 0]_vars

\* C9 happens: a call has raised TimeoutError after MaxWait sleeps and its id
\* is pending still.
C9_Witness ==
  /\ out.op = "call"
  /\ out.res = "TimeoutError"
  /\ out.budget = MaxWait
  /\ out.slept = MaxWait
  /\ waiting_requests # {}

\* C10, as the spec states it: when connect(), disconnect() or reconnect()
\* has finished, by returning or by raising, the listener task is running
\* if and only if the handler is connected.
C10_ListenerRunsIffConnected ==
  out.op \in {"connect", "disconnect", "reconnect"}
    => (listener_task = "running" <=> connected)

\* C11: connect() on a handler that is not connected, answered by a connect
\* message whose meta.API-Version is another version than the handler's,
\* raises MismatchedVersionError(handler's version, server's version) and
\* starts no listener task; answered by one whose meta has no API-Version, it
\* logs, returns, and the listener task runs on an open connection.
C11_VersionMismatchRaised ==
  [][\A h \in Hellos :
       (~connected /\ h.shape = "object" /\ h.meta = "object" /\ Connect(h))
         => /\ (h.version \in Versions /\ h.version # api_version)
                 => /\ out'.res = "MismatchedVersionError"
                    /\ out'.args = <<api_version, h.version>>
                    /\ listener_task' # "running"
            /\ h.version = "absent"
                 => /\ out'.res = "logged"
                    /\ listener_task' = "running"
                    /\ connection' = "open"]_vars

\* C11 happens: connect() has just raised MismatchedVersionError on a v2.0
\* handler answered by a v2.1 server, and no listener task runs.
C11_Witness ==
  /\ out.op = "connect"
  /\ out.res = "MismatchedVersionError"
  /\ api_version = "v2.0"
  /\ out.args = <<"v2.0", "v2.1">>
  /\ listener_task # "running"

\* C12, as the spec states it: from the state a connect() leaves behind
\* when it raised MismatchedVersionError or APIError, a reconnect(), or a
\* disconnect() as the first half of disconnect-then-connect, against a
\* server of the handler's version does not raise.
C12_FailedConnectRecoverable ==
  [][\A h \in Hellos :
       (/\ out.op = "connect"
        /\ out.res \in {"MismatchedVersionError", "APIError"}
        /\ h.shape = "object" /\ h.meta = "object" /\ h.version = api_version
        /\ (Reconnect(h, "None", "None", "None") \/ Disconnect))
         => out'.res = "ok"]_vars

\* C13: disconnect() on a connected handler leaves no listener task behind
\* and touches no call; while the handler is not connected no listener task
\* runs, no step files a reply or takes an id out of _waiting_requests, and
\* a call whose id is pending ends with TimeoutError only, after all its
\* sleeps.
C13_DisconnectStopsDispatch ==
  [][/\ (connected /\ Disconnect)
          => listener_task' = "None" /\ UNCHANGED <<tableVars, callerVars>>
     /\ ~connected' => listener_task' # "running"
     /\ ~connected
          => /\ DOMAIN request_responses' \subseteq DOMAIN request_responses
             /\ waiting_requests \subseteq waiting_requests'
             /\ \A c \in Calls :
                  (pc[c] = "polling" /\ request_id[c] \in waiting_requests
                     /\ pc'[c] = "done")
                    => /\ out'.res = "TimeoutError"
                       /\ out'.slept = max_wait[c]]_vars

\* C13 happens: after a disconnect() a call that had registered its id has
\* raised TimeoutError after all its sleeps; the id is pending still.
C13_Witness ==
  /\ uri # <<>>
  /\ connection = "None"
  /\ listener_task = "None"
  /\ out.op = "call"
  /\ out.res = "TimeoutError"
  /\ out.slept = MaxWait
  /\ waiting_requests # {}

\* C14, as the spec states it: a reconnect() that gets as far as its
\* overrides replaces each of hostname, token and tls for which it is given
\* a value, tls=False included, leaves the others as they are, and dials the
\* URI made of the new values.
C14_ReconnectAppliesOverrides ==
  [][\A h \in Hellos, hn \in {"None", "other.example"}, tk \in {"None", "token1"},
        tl \in {"None", "True", "False"} :
       (Reconnect(h, hn, tk, tl) /\ ~(connected /\ listener_task = "None"))
         => /\ hostname' = IF hn # "None" THEN hn ELSE hostname
            /\ token' = IF tk # "None" THEN tk ELSE token
            /\ tls' = IF tl # "None" THEN (tl = "True") ELSE tls
            /\ uri' = Uri(hostname', token', tls')]_vars

\* C15, as the spec states it: the id _request() adds to _waiting_requests
\* when its send has returned is in neither collection at that moment, and
\* no two calls in flight hold the same id.
C15_RegisteredIdIsFresh ==
  [][\A c \in Calls :
       (pc[c] = "sending" /\ SendReturns(c))
         => /\ request_id[c] \notin waiting_requests
            /\ request_id[c] \notin DOMAIN request_responses
            /\ \A d \in Calls \ {c} : InFlight(d) => request_id[d] # request_id[c]]_vars

\* C16: whatever other call is in flight, suspended in its send or in a
\* sleep, a call that has not been made yet can send its envelope on a
\* connected handler, a call whose send is under way can register its id, a
\* call whose id is pending has its reply filed when the listener gets it,
\* and a call whose reply is filed returns it when it wakes with sleeps left.
C16_WaitingIsPerRequest ==
  \A c \in Calls : \A d \in Calls \ {c} :
    InFlight(c) =>
      /\ (pc[d] = "idle" /\ connected)
           => ENABLED (Request(d) /\ pc'[d] = "sending")
      /\ pc[d] = "sending"
           => ENABLED (SendReturns(d) /\ pc'[d] = "polling"
                         /\ request_id[d] \in waiting_requests')
      /\ (pc[d] = "polling" /\ listener_task = "running"
            /\ request_id[d] \in waiting_requests)
           => \A f \in Replies(request_id[d]) :
                ENABLED (MessageHandler(f) /\ request_id[d] \in DOMAIN request_responses'
                           /\ request_responses'[request_id[d]] = f)
      /\ (pc[d] = "polling" /\ request_id[d] \notin waiting_requests
            /\ request_id[d] \in DOMAIN request_responses /\ i[d] + 1 < max_wait[d])
           => ENABLED (Wake(d) /\ out'.res = "returned"
                         /\ out'.data = request_responses[request_id[d]])

\* C16 happens: a call has returned its reply while another call, whose
\* reply has not come, is asleep with its id pending.
C16_Witness ==
  /\ out.op = "call"
  /\ out.res = "returned"
  /\ \E c \in Calls :
       /\ pc[c] = "polling"
       /\ request_id[c] \in waiting_requests
       /\ request_id[c] # UUID(out.data)

\* C17: update_rescue on a rescue without case id raises ValueError: the
\* step sends nothing, registers nothing and changes neither collection. On
\* a rescue with a case id, connected, the step hands one envelope to the
\* socket, call("rescues", "update", {id, data}) of that rescue; from then
\* on the call sends nothing more, and what it returns is the entry filed
\* under its id, as it was filed. Both handler classes run the same steps.
C17_UpdateRescue ==
  [][\A c \in Calls :
       /\ \A rescue \in Rescues :
            UpdateRescue(c, rescue)
              => IF rescue.case_id = "None"
                   THEN /\ out'.op = "call" /\ out'.res = "ValueError"
                        /\ pc'[c] = "done"
                        /\ UNCHANGED tableVars
                   ELSE IF connected
                     THEN /\ out' = RescueEnvelope(rescue)
                          /\ pc'[c] = "sending"
                          /\ UNCHANGED tableVars
                     ELSE out'.res = "NotConnectedError" /\ UNCHANGED tableVars
       /\ (InFlight(c) /\ pc'[c] # pc[c])
            => /\ out'.op # "send"
               /\ out'.res = "returned"
                    => /\ request_id[c] \in DOMAIN request_responses
                       /\ out'.data = request_responses[request_id[c]]]_vars

\* C17 happens: on a v2.0 handler an update_rescue has returned a reply.
C17_Witness ==
  /\ api_version = "v2.0"
  /\ out.op = "call"
  /\ out.res = "returned"
  /\ WellFormedReply(out.data)

\* C18, as the spec states it: an entry of _request_responses belongs to a
\* call that is still in flight with that id; none is left when the call has
\* ended.
C18_FiledEntriesHaveACaller ==
  \A x \in DOMAIN request_responses :
    \E c \in Calls : InFlight(c) /\ request_id[c] = x

\* C19, as the spec states it: an id in _waiting_requests belongs to a call
\* that is still in flight with that id; none is left when the call has
\* ended.
C19_PendingIdsHaveACaller ==
  \A x \in waiting_requests :
    \E c \in Calls : InFlight(c) /\ request_id[c] = x

\* C20, as the spec states it: when _retrieve_response raises TimeoutError
\* its id is still in _waiting_requests and no reply to it is in
\* _request_responses.
C20_TimeoutOnlyIfUnanswered ==
  [][\A c \in Calls :
       /\ (pc[c] = "polling" /\ pc'[c] = "done" /\ out'.res = "TimeoutError")
            => /\ request_id[c] \in waiting_requests'
               /\ request_id[c] \notin DOMAIN request_responses'
       /\ \A id \in IDs, n \in Budgets :
            (RetrieveResponse(c, id, n) /\ out'.res = "TimeoutError")
              => /\ id \in waiting_requests'
                 /\ id \notin DOMAIN request_responses']_vars

====
